---- MODULE Spec2Model ----
(***************************************************************************)
(* dynamodbfriend: the fluent query expression (QueryExpr), the index      *)
(* selection and request compilation of Table.Query, and the lazy          *)
(* pagination of QueryParser.Next.                                         *)
(*                                                                         *)
(* Operand values of filters are payload only (no branch of the code reads *)
(* them), so a filter is modelled by its type.  Log lines are not state.   *)
(***************************************************************************)
EXTENDS Integers, Sequences, FiniteSets, TLC

\* ------------------------------------------------------------------ bounds
MaxBuilderCalls == 2   \* builder calls on one expression after Init
MaxCount == 2          \* largest count passed to Limit / MaxPagination
MaxSelectLen == 1      \* longest attribute list passed to Select
MaxConds == 1          \* raw conditions attached with WithFilter
MaxCalls == 4          \* calls of Next on one parser
MaxPageLen == 2        \* records in one backend page
MaxPages == 2          \* pages a finite backend holds
MaxFailures == 1       \* backend queries that fail before queries succeed

\* --------------------------------------------------------------- constants
\* Attribute names.  The empty string is a legal Go string and the zero
\* value of tableIndex.SortKey for an index without a sort key.
Keys == {"", "p", "s", "t"}

SelectAttrs == {"a", "s"}

FilterTypes ==
  {"equals", "lessThan", "greaterThan", "lessThanEqual", "greaterThanEqual",
   "between", "beginsWith"}

NoFilter == "none"

\* The condition name each comparator of QueryExprKey passes to addFilter.
conditionName(t) ==
  CASE t = "equals" -> "equals"
    [] t = "lessThan" -> "less than"
    [] t = "greaterThan" -> "greater than"
    [] t = "lessThanEqual" -> "less than or equal"
    [] t = "greaterThanEqual" -> "greater than or equal"
    [] t = "between" -> "between"
    [] t = "beginsWith" -> "begins with"

tablePrimaryIndexName == "#primary"

TableName == "T"

\* expr.buildErr == nil
NoBuildErr == [key |-> "", cond |-> ""]

CountValues == 0 .. MaxCount

RECURSIVE SeqsUpTo(_, _)
SeqsUpTo(S, n) ==
  IF n = 0 THEN {<<>>}
  ELSE LET shorter == SeqsUpTo(S, n - 1)
       IN shorter \cup {Append(q, x) : q \in shorter, x \in S}

SelectLists == SeqsUpTo(SelectAttrs, MaxSelectLen)

\* ------------------------------------------------------------------- state
VARIABLES
  expr,          \* the QueryExpr under construction / handed to Query
  table,         \* the Table handle: Name and the index metadata cache
  pc,            \* "build" until the expression is handed to Query, then "exec"
  queryRet,      \* what the latest Table.Query returned
  queryInput,    \* the compiled dynamodb.QueryInput of the parser
  parser,        \* the QueryParser's fields
  builderCalls,  \* builder calls made on expr since Init
  lastOp,        \* the latest API call and its argument
  describes,     \* DescribeTable calls the latest Query made
  calls,         \* Next calls made on the parser
  queries,       \* QueryWithContext calls the parser made
  fetched,       \* QueryWithContext calls that returned a page
  okCount,       \* Next calls that returned nil (a decoded record)
  lastResult,    \* what the latest Next returned
  lastQueried,   \* QueryWithContext calls the latest Next made
  doneReason,    \* which branch of Next set parsingComplete
  lastPage,      \* the latest page QueryWithContext returned to the parser
  lastItem,      \* the record the latest Next took from the buffer (0: none)
  conflicts      \* the keys a comparator was applied to when they had a filter

vars ==
  <<expr, table, pc, queryRet, queryInput, parser, builderCalls, lastOp,
    describes, calls, queries, fetched, okCount, lastResult, lastQueried,
    doneReason, lastPage, lastItem, conflicts>>

parserVars ==
  <<parser, calls, queries, fetched, okCount, lastResult, lastQueried,
    doneReason, lastPage, lastItem>>

\* --------------------------------------------------------- index metadata
Hash(a) == [AttributeName |-> a, KeyType |-> "HASH"]

Range(a) == [AttributeName |-> a, KeyType |-> "RANGE"]

NilProjection == [ProjectionType |-> "nil", NonKeyAttributes |-> {}]

Projection(t, attrs) == [ProjectionType |-> t, NonKeyAttributes |-> attrs]

SecondaryIndex(name, schema, proj) ==
  [IndexName |-> name, KeySchema |-> schema, Projection |-> proj]

\* DescribeTable outputs of the tables the backend may hold.
TableDescriptions ==
  { [KeySchema |-> <<Hash("p")>>,
     GlobalSecondaryIndexes |-> <<>>,
     LocalSecondaryIndexes |-> <<>>],
    [KeySchema |-> <<Hash("p"), Range("s")>>,
     GlobalSecondaryIndexes |->
       <<SecondaryIndex("gsiT", <<Hash("p"), Range("t")>>, Projection("ALL", {}))>>,
     LocalSecondaryIndexes |-> <<>>],
    [KeySchema |-> <<Hash("p")>>,
     GlobalSecondaryIndexes |->
       <<SecondaryIndex("gsiS", <<Hash("p"), Range("s")>>, NilProjection)>>,
     LocalSecondaryIndexes |->
       <<SecondaryIndex("lsiT", <<Hash("p"), Range("t")>>, Projection("KEYS_ONLY", {}))>>],
    [KeySchema |-> <<Hash("t"), Range("s")>>,
     GlobalSecondaryIndexes |->
       <<SecondaryIndex("gsiP", <<Hash("p")>>, Projection("INCLUDE", {"a"}))>>,
     LocalSecondaryIndexes |-> <<>>] }

\* new(tableIndex)
newTableIndex ==
  [Name |-> "", PartitionKey |-> "", SortKey |-> "", IsComposite |-> FALSE,
   AttributeSet |-> {}, IncludesAllAttributes |-> FALSE,
   ConsistentReadable |-> FALSE]

RECURSIVE loadKeys(_, _, _)
loadKeys(index, keySchema, i) ==
  IF i > Len(keySchema) THEN index
  ELSE LET el == keySchema[i]
           next == CASE el.KeyType = "HASH" ->
                          [index EXCEPT !.PartitionKey = el.AttributeName]
                     [] el.KeyType = "RANGE" ->
                          [index EXCEPT !.SortKey = el.AttributeName,
                                        !.IsComposite = TRUE]
                     [] OTHER -> index
       IN loadKeys(next, keySchema, i + 1)

loadKeysFromSchema(index, keySchema) ==
  loadKeys([index EXCEPT !.IsComposite = FALSE], keySchema, 1)

getKeys(index) ==
  IF index.IsComposite THEN <<index.PartitionKey, index.SortKey>>
  ELSE <<index.PartitionKey>>

SeqToSet(q) == {q[i] : i \in DOMAIN q}

loadAttributesFromProjection(index, projection, tablePrimaryIndexKeys) ==
  IF projection.ProjectionType \in {"nil", "ALL"}
  THEN [index EXCEPT !.IncludesAllAttributes = TRUE]
  ELSE [index EXCEPT
          !.IncludesAllAttributes = FALSE,
          !.AttributeSet =
             SeqToSet(getKeys(index) \o tablePrimaryIndexKeys)
               \cup (IF projection.ProjectionType = "INCLUDE"
                     THEN projection.NonKeyAttributes ELSE {})]

\* Mutant: the primary index is not marked as projecting all attributes.
primaryIndexOf_notFullProjection(desc) ==
  [loadKeysFromSchema([newTableIndex EXCEPT !.Name = tablePrimaryIndexName],
                      desc.KeySchema)
     EXCEPT !.ConsistentReadable = TRUE]

primaryIndexOf(desc) ==
  [loadKeysFromSchema([newTableIndex EXCEPT !.Name = tablePrimaryIndexName],
                      desc.KeySchema)
     EXCEPT !.IncludesAllAttributes = TRUE, !.ConsistentReadable = TRUE]

secondaryIndexOf(d, primaryKeys, consistentReadable) ==
  [loadAttributesFromProjection(
     loadKeysFromSchema([newTableIndex EXCEPT !.Name = d.IndexName], d.KeySchema),
     d.Projection, primaryKeys)
     EXCEPT !.ConsistentReadable = consistentReadable]

\* table.allIndexes == nil.  A loaded map always holds "#primary", so the nil
\* map and the map without entries are the same value here.
NilIndexes == [n \in {} |-> newTableIndex]

\* What DescribeTable returns: an error, or the description of the table.
DescribeOutcomes ==
  {[err |-> TRUE, desc |-> d] : d \in {CHOOSE d \in TableDescriptions : TRUE}}
    \cup {[err |-> FALSE, desc |-> d] : d \in TableDescriptions}

\* table.allIndexes after fetchIndexMetadata, given what DescribeTable returned.
fetchIndexMetadata(out) ==
  IF out.err THEN NilIndexes
  ELSE LET desc == out.desc
           primary == primaryIndexOf(desc)
           primaryKeys == getKeys(primary)
           gsi == desc.GlobalSecondaryIndexes
           lsi == desc.LocalSecondaryIndexes
           names == {tablePrimaryIndexName}
                      \cup {gsi[i].IndexName : i \in DOMAIN gsi}
                      \cup {lsi[i].IndexName : i \in DOMAIN lsi}
       IN [n \in names |->
             \* local secondary indexes are inserted last, global ones second
             IF \E i \in DOMAIN lsi : lsi[i].IndexName = n
             THEN LET i == CHOOSE i \in DOMAIN lsi : lsi[i].IndexName = n
                  IN secondaryIndexOf(lsi[i], primaryKeys, TRUE)
             ELSE IF \E i \in DOMAIN gsi : gsi[i].IndexName = n
             THEN LET i == CHOOSE i \in DOMAIN gsi : gsi[i].IndexName = n
                  IN secondaryIndexOf(gsi[i], primaryKeys, FALSE)
             ELSE primary]

indexNameSet(tbl) == DOMAIN tbl.allIndexes

\* ------------------------------------------------------------ QueryExpr
\* NewQuery: the expression a QueryExprKey starts from.
NewQuery ==
  [filters |-> [k \in Keys |-> NoFilter],
   limitSpecified |-> FALSE, limit |-> 0,
   attributesSpecified |-> FALSE, attributes |-> <<>>,
   orderMatters |-> FALSE, orderKey |-> "", orderDescending |-> FALSE,
   maxPaginationSpecified |-> FALSE, maxPagination |-> 0,
   consistentRead |-> FALSE,
   additionalConditions |-> 0,
   buildErr |-> NoBuildErr]

\* Mutant: a second filter on a key silently replaces the first.
addFilter_overwrites(e, key, t) == [e EXCEPT !.filters[key] = t]

addFilter(e, key, t) ==
  IF e.filters[key] # NoFilter
  THEN [e EXCEPT !.buildErr = [key |-> key, cond |-> conditionName(t)]]
  ELSE [e EXCEPT !.filters[key] = t]

Limit(e, count) == [e EXCEPT !.limitSpecified = TRUE, !.limit = count]

Select(e, attributes) ==
  [e EXCEPT !.attributesSpecified = TRUE, !.attributes = attributes]

OrderAscending(e, sortKey) ==
  [e EXCEPT !.orderMatters = TRUE, !.orderKey = sortKey,
            !.orderDescending = FALSE]

OrderDescending(e, sortKey) ==
  [e EXCEPT !.orderMatters = TRUE, !.orderKey = sortKey,
            !.orderDescending = TRUE]

MaxPagination(e, count) ==
  [e EXCEPT !.maxPaginationSpecified = TRUE, !.maxPagination = count]

\* Mutant: the consistency flag is set and the pagination cap left alone.
ConsistentRead_leavesCap(e, val) == [e EXCEPT !.consistentRead = val]

ConsistentRead(e, val) ==
  IF val
  THEN [e EXCEPT !.consistentRead = TRUE,
                 !.maxPaginationSpecified = TRUE, !.maxPagination = 1]
  ELSE [e EXCEPT !.consistentRead = FALSE]

WithFilter(e) == [e EXCEPT !.additionalConditions = @ + 1]

getKeysOfFilterType(e, t) == {k \in Keys : e.filters[k] = t}

\* A QueryExpr exists once the first comparator of a QueryExprKey has run.
HasExpr == \E k \in Keys : expr.filters[k] # NoFilter

\* ------------------------------------------------------- index selection
\* filterIndexNames: the names of `names` whose index passes validCondition.
\* Mutant: a filter of any type on the partition key makes the index viable.
partitionKeyViable_anyFilter(tbl, e, names) ==
  {n \in names : e.filters[tbl.allIndexes[n].PartitionKey] # NoFilter}

\* Mutant: the partition key condition removes no index.
partitionKeyViable_unfiltered(tbl, e, names) == names

partitionKeyViable(tbl, e, names) ==
  {n \in names : tbl.allIndexes[n].PartitionKey \in getKeysOfFilterType(e, "equals")}

\* Mutant: the consistent-read condition removes no index.
consistentReadViable_ignored(tbl, e, names) == names

consistentReadViable(tbl, e, names) ==
  IF e.consistentRead
  THEN {n \in names : tbl.allIndexes[n].ConsistentReadable}
  ELSE names

\* Mutant: the order condition compares the SortKey field alone.
orderViable_sortKeyOnly(tbl, e, names) ==
  IF e.orderMatters
  THEN {n \in names : tbl.allIndexes[n].SortKey = e.orderKey}
  ELSE names

orderViable(tbl, e, names) ==
  IF e.orderMatters
  THEN {n \in names : tbl.allIndexes[n].IsComposite
                       /\ tbl.allIndexes[n].SortKey = e.orderKey}
  ELSE names

\* Mutant: the projection condition removes no index.
projectionViable_ignored(tbl, e, names) == names

projectionViable(tbl, e, names) ==
  IF e.attributesSpecified
  THEN {n \in names :
          \/ tbl.allIndexes[n].IncludesAllAttributes
          \/ \A i \in DOMAIN e.attributes :
               e.attributes[i] \in tbl.allIndexes[n].AttributeSet}
  ELSE {n \in names : tbl.allIndexes[n].IncludesAllAttributes}

\* The viable set of a table whose metadata is loaded.
getViableQueryIndexes(tbl, e) ==
  projectionViable(tbl, e,
    orderViable(tbl, e,
      consistentReadViable(tbl, e,
        partitionKeyViable(tbl, e, indexNameSet(tbl)))))

\* getPriorityIndexesWithSortKeyOnFilterType: the viable indexes whose SortKey
\* field is among the keys that carry a filter of type t.
priorityIndexesOnFilterType(tbl, e, viable, t) ==
  {n \in viable : tbl.allIndexes[n].SortKey \in getKeysOfFilterType(e, t)}

\* Mutant: Between is looked for before Equals and BeginsWith.
priorityIndexNameSet_betweenFirst(tbl, e, viable) ==
  IF priorityIndexesOnFilterType(tbl, e, viable, "between") # {}
  THEN priorityIndexesOnFilterType(tbl, e, viable, "between")
  ELSE IF priorityIndexesOnFilterType(tbl, e, viable, "equals") # {}
  THEN priorityIndexesOnFilterType(tbl, e, viable, "equals")
  ELSE IF priorityIndexesOnFilterType(tbl, e, viable, "beginsWith") # {}
  THEN priorityIndexesOnFilterType(tbl, e, viable, "beginsWith")
  ELSE viable

priorityIndexNameSet(tbl, e, viable) ==
  IF priorityIndexesOnFilterType(tbl, e, viable, "equals") # {}
  THEN priorityIndexesOnFilterType(tbl, e, viable, "equals")
  ELSE IF priorityIndexesOnFilterType(tbl, e, viable, "beginsWith") # {}
  THEN priorityIndexesOnFilterType(tbl, e, viable, "beginsWith")
  ELSE IF priorityIndexesOnFilterType(tbl, e, viable, "between") # {}
  THEN priorityIndexesOnFilterType(tbl, e, viable, "between")
  ELSE viable

\* The names chooseIndex may return: Names()[0] of a Go map is any member.
chooseIndex(tbl, e) ==
  priorityIndexNameSet(tbl, e, getViableQueryIndexes(tbl, e))

\* ----------------------------------------------------- request compilation
NoSortCondition == [key |-> "", type |-> NoFilter]

NoQueryInput ==
  [IndexName |-> "", KeyPartition |-> "", KeySort |-> NoSortCondition,
   FilterKeys |-> {}, RawConditions |-> 0, HasFilter |-> FALSE,
   HasProjection |-> FALSE, Projection |-> <<>>,
   HasLimit |-> FALSE, Limit |-> 0, ConsistentRead |-> FALSE,
   ScanIndexForward |-> "nil", ExclusiveStartKey |-> 0]

\* The sort-key filter that goes into the key condition: looked up after the
\* partition key's filter has been deleted from the copy.
sortKeyCondition(e, index) ==
  IF /\ index.IsComposite
     /\ index.SortKey # index.PartitionKey
     /\ e.filters[index.SortKey] # NoFilter
  THEN [key |-> index.SortKey, type |-> e.filters[index.SortKey]]
  ELSE NoSortCondition

\* Mutant: the sort key's filter is not deleted from the remaining filters.
remainingFilterKeys_keepsSortKey(e, index) ==
  {k \in Keys : e.filters[k] # NoFilter} \ {index.PartitionKey}

\* The keys whose filters become filter-condition terms.
remainingFilterKeys(e, index) ==
  {k \in Keys : e.filters[k] # NoFilter}
    \ ({index.PartitionKey}
         \cup (IF sortKeyCondition(e, index) # NoSortCondition
               THEN {index.SortKey} ELSE {}))

\* A failed type assertion on the partition key's filter, or names[0] of an
\* empty attribute list.
constructPanics(e, index) ==
  \/ e.filters[index.PartitionKey] # "equals"
  \/ e.attributesSpecified /\ Len(e.attributes) = 0

\* expression.Builder.Build fails on a name that is the empty string.
buildFails(e, index) ==
  \/ index.PartitionKey = ""
  \/ sortKeyCondition(e, index) # NoSortCondition /\ index.SortKey = ""
  \/ "" \in remainingFilterKeys(e, index)
  \/ e.attributesSpecified /\ "" \in SeqToSet(e.attributes)

constructQueryInputGivenIndex(e, index) ==
  IF constructPanics(e, index) THEN [kind |-> "panic", input |-> NoQueryInput]
  ELSE IF buildFails(e, index) THEN [kind |-> "error", input |-> NoQueryInput]
  ELSE [kind |-> "ok",
        input |->
          [IndexName |-> IF index.Name # tablePrimaryIndexName
                         THEN index.Name ELSE "",
           KeyPartition |-> index.PartitionKey,
           KeySort |-> sortKeyCondition(e, index),
           FilterKeys |-> remainingFilterKeys(e, index),
           RawConditions |-> e.additionalConditions,
           HasFilter |->
             Cardinality(remainingFilterKeys(e, index))
               + e.additionalConditions >= 1,
           HasProjection |-> e.attributesSpecified,
           Projection |-> e.attributes,
           HasLimit |-> e.limitSpecified,
           Limit |-> IF e.limitSpecified THEN e.limit ELSE 0,
           ConsistentRead |-> e.consistentRead,
           ScanIndexForward |->
             IF ~e.orderMatters THEN "nil"
             ELSE IF e.orderDescending THEN "false" ELSE "true",
           ExclusiveStartKey |-> 0]]

\* ---------------------------------------------------------- Table.Query
NoRet == [kind |-> "none", err |-> NoBuildErr, tableName |-> "", index |-> ""]

Ret(kind) == [NoRet EXCEPT !.kind = kind]

\* &QueryParser{table, expr, queryInput, bufferedItems: {}}
newQueryParser ==
  [lastEvaluatedKey |-> 0,
   bufferedItemsRemaining |-> 0,
   bufferedItems |-> <<>>,
   totalItemsParsed |-> 0,
   totalPagesParsed |-> 0,
   allPagesParsed |-> FALSE,
   parsingComplete |-> FALSE]

\* Query's outcome on expression e and table tbl (the table as it is after the
\* metadata step), with index name `pick` taken from the priority set.
QueryOutcome(tbl, e, pick) ==
  IF e.buildErr # NoBuildErr
  THEN [ret |-> [Ret("buildErr") EXCEPT !.err = e.buildErr],
        input |-> NoQueryInput]
  ELSE IF tbl.allIndexes = NilIndexes
  THEN [ret |-> Ret("fetchErr"), input |-> NoQueryInput]
  ELSE IF getViableQueryIndexes(tbl, e) = {}
  THEN [ret |-> [Ret("ErrNoViableIndexes") EXCEPT !.tableName = tbl.Name],
        input |-> NoQueryInput]
  ELSE LET c == constructQueryInputGivenIndex(e, tbl.allIndexes[pick])
       IN IF c.kind = "ok"
          THEN [ret |-> [Ret("parser") EXCEPT !.index = pick], input |-> c.input]
          ELSE [ret |-> [Ret(c.kind) EXCEPT !.index = pick], input |-> NoQueryInput]

\* Mutant: the metadata is fetched on every Query that reaches index selection.
fetchesMetadata_always(tbl, e) == e.buildErr = NoBuildErr

\* getViableQueryIndexes calls fetchIndexMetadata: no build error, no metadata.
fetchesMetadata(tbl, e) == e.buildErr = NoBuildErr /\ tbl.allIndexes = NilIndexes

\* The table after getViableQueryIndexes' metadata step.
ensureLoaded(tbl, e, out) ==
  IF fetchesMetadata(tbl, e)
  THEN [tbl EXCEPT !.allIndexes = fetchIndexMetadata(out)]
  ELSE tbl

NoPage == [n |-> 0, more |-> FALSE, fetched |-> FALSE]

ResetParser ==
  /\ parser' = newQueryParser
  /\ calls' = 0
  /\ queries' = 0
  /\ fetched' = 0
  /\ okCount' = 0
  /\ lastResult' = "none"
  /\ lastQueried' = 0
  /\ doneReason' = "none"
  /\ lastPage' = NoPage
  /\ lastItem' = 0

Query ==
  /\ HasExpr
  /\ \E out \in IF fetchesMetadata(table, expr)
                THEN DescribeOutcomes
                ELSE {CHOOSE o \in DescribeOutcomes : TRUE} :
       LET tbl == ensureLoaded(table, expr, out)
           names == IF expr.buildErr = NoBuildErr /\ tbl.allIndexes # NilIndexes
                    THEN chooseIndex(tbl, expr) ELSE {}
       IN \E pick \in IF names # {} THEN names ELSE {""} :
            LET o == QueryOutcome(tbl, expr, pick)
            IN /\ table' = tbl
               /\ queryRet' = o.ret
               /\ queryInput' = o.input
               /\ describes' = IF fetchesMetadata(table, expr) THEN 1 ELSE 0
  /\ pc' = "exec"
  /\ lastOp' = <<"Query", "">>
  /\ ResetParser
  /\ UNCHANGED <<expr, builderCalls, conflicts>>

\* ------------------------------------------------------- builder actions
Building == pc = "build" /\ builderCalls < MaxBuilderCalls

BuilderFrame ==
  /\ builderCalls' = builderCalls + 1
  /\ UNCHANGED <<table, pc, queryRet, queryInput, describes>>
  /\ UNCHANGED parserVars

OptionFrame == BuilderFrame /\ UNCHANGED conflicts

\* NewQuery(key) or expr.And(key), followed by one of the seven comparators.
Compare ==
  /\ Building
  /\ \E key \in Keys, t \in FilterTypes :
       /\ expr' = addFilter(expr, key, t)
       /\ lastOp' = <<t, key>>
       /\ conflicts' = IF expr.filters[key] # NoFilter
                       THEN conflicts \cup {key} ELSE conflicts
  /\ BuilderFrame

DoLimit ==
  /\ Building /\ HasExpr
  /\ \E count \in CountValues :
       /\ expr' = Limit(expr, count)
       /\ lastOp' = <<"Limit", count>>
  /\ OptionFrame

DoSelect ==
  /\ Building /\ HasExpr
  /\ \E attributes \in SelectLists :
       /\ expr' = Select(expr, attributes)
       /\ lastOp' = <<"Select", attributes>>
  /\ OptionFrame

DoOrderAscending ==
  /\ Building /\ HasExpr
  /\ \E sortKey \in Keys :
       /\ expr' = OrderAscending(expr, sortKey)
       /\ lastOp' = <<"OrderAscending", sortKey>>
  /\ OptionFrame

DoOrderDescending ==
  /\ Building /\ HasExpr
  /\ \E sortKey \in Keys :
       /\ expr' = OrderDescending(expr, sortKey)
       /\ lastOp' = <<"OrderDescending", sortKey>>
  /\ OptionFrame

DoMaxPagination ==
  /\ Building /\ HasExpr
  /\ \E count \in CountValues :
       /\ expr' = MaxPagination(expr, count)
       /\ lastOp' = <<"MaxPagination", count>>
  /\ OptionFrame

DoConsistentRead ==
  /\ Building /\ HasExpr
  /\ \E val \in BOOLEAN :
       /\ expr' = ConsistentRead(expr, val)
       /\ lastOp' = <<"ConsistentRead", val>>
  /\ OptionFrame

DoWithFilter ==
  /\ Building /\ HasExpr
  /\ expr.additionalConditions < MaxConds
  /\ expr' = WithFilter(expr)
  /\ lastOp' = <<"WithFilter", "">>
  /\ OptionFrame

\* ------------------------------------------------------- QueryParser.Next
\* What QueryWithContext returns: an error (a failure, a cancelled or expired
\* context), or a page of n records with or without a LastEvaluatedKey.
QueryResponses ==
  {[err |-> TRUE, n |-> 0, more |-> FALSE]}
    \cup {[err |-> FALSE, n |-> n, more |-> m] : n \in 0 .. MaxPageLen, m \in BOOLEAN}

\* Records are numbered in index order; a LastEvaluatedKey is the number of
\* the page's last record, and 0 is the nil key.
pageItems(startKey, n) == [i \in 1 .. n |-> startKey + i]

pageLastEvaluatedKey(startKey, resp) ==
  IF resp.more THEN startKey + resp.n ELSE 0

\* Mutant: no LastEvaluatedKey is taken to be the last one.
lastEvaluatedKeyIsEmpty_never(lastEvaluatedKey) == FALSE

lastEvaluatedKeyIsEmpty(lastEvaluatedKey) == lastEvaluatedKey = 0

\* Mutant: Next does not look at the terminal flag.
parsingIsComplete_ignored(p) == FALSE

\* Line 40: the parser is Exhausted.
parsingIsComplete(p) == p.parsingComplete

\* Mutant: Next refills on every call.
bufferIsEmpty_always(p) == TRUE

\* Line 45: the buffer holds no unconsumed record.
bufferIsEmpty(p) == p.bufferedItemsRemaining = 0

\* Mutant: the buffer is read from its end.
thisItem_fromEnd(p) == p.bufferedItems[p.bufferedItemsRemaining]

\* Lines 82-83: the record Next takes from the buffer.
thisItem(p) ==
  p.bufferedItems[Len(p.bufferedItems) - p.bufferedItemsRemaining + 1]

\* Mutant: the cap is compared one page late.
maxPaginationReached_onePageLate(p, e) ==
  e.maxPaginationSpecified /\ p.totalPagesParsed = e.maxPagination + 1

\* The pagination cap check of Next.
maxPaginationReached(p, e) ==
  e.maxPaginationSpecified /\ p.totalPagesParsed = e.maxPagination

\* Mutant: the limit is compared one record late.
limitReached_oneRecordLate(p, e) == p.totalItemsParsed = e.limit + 1

\* The limit check of Next, made after the record has been counted.
limitReached(p, e) == p.totalItemsParsed = e.limit

\* Mutant: a page without LastEvaluatedKey does not mark the last page.
refill_keepsPaging(p, resp) ==
  [p EXCEPT
     !.lastEvaluatedKey = pageLastEvaluatedKey(p.lastEvaluatedKey, resp),
     !.totalPagesParsed = @ + 1,
     !.bufferedItems = pageItems(p.lastEvaluatedKey, resp.n),
     !.bufferedItemsRemaining = resp.n]

\* Mutant: the page's LastEvaluatedKey is not recorded.
refill_keepsToken(p, resp) ==
  LET key == pageLastEvaluatedKey(p.lastEvaluatedKey, resp)
  IN [p EXCEPT
        !.allPagesParsed = IF lastEvaluatedKeyIsEmpty(key) THEN TRUE ELSE @,
        !.totalPagesParsed = @ + 1,
        !.bufferedItems = pageItems(p.lastEvaluatedKey, resp.n),
        !.bufferedItemsRemaining = resp.n]

\* Lines 71-79: the page is committed to the parser.
refill(p, resp) ==
  LET key == pageLastEvaluatedKey(p.lastEvaluatedKey, resp)
  IN [p EXCEPT
        !.allPagesParsed = IF lastEvaluatedKeyIsEmpty(key) THEN TRUE ELSE @,
        !.lastEvaluatedKey = IF lastEvaluatedKeyIsEmpty(key) THEN @ ELSE key,
        !.totalPagesParsed = @ + 1,
        !.bufferedItems = pageItems(p.lastEvaluatedKey, resp.n),
        !.bufferedItemsRemaining = resp.n]

\* Lines 82-90: one record leaves the buffer.
consume(p, e) ==
  LET q == [p EXCEPT !.bufferedItemsRemaining = @ - 1,
                     !.totalItemsParsed = @ + 1]
  IN [q EXCEPT !.parsingComplete = IF limitReached(q, e) THEN TRUE ELSE @]

\* Mutant: a failed query ends the parsing.
queryFailed_exhausts(p) == [p EXCEPT !.parsingComplete = TRUE]

\* Lines 60-62: QueryWithContext returned an error; Next returns it.
queryFailed(p) == p

\* Mutant: an empty page leaves the parser as it was.
noItemsReturned_staysActive(p) == p

\* Lines 65-69: the page holds no record.
noItemsReturned(p) == [p EXCEPT !.parsingComplete = TRUE]

\* One call of Next: the parser after it, what it returned, the backend
\* queries it made, and the branch that completed the parsing (if any).
NextOutcome(p, e, resp, decodeOK) ==
  LET out(q, result, nq, nf, reason) ==
        [parser |-> q, result |-> result, queried |-> nq, fetched |-> nf,
         reason |-> reason, item |-> 0]
      done(reason, nq, nf) ==
        out([p EXCEPT !.parsingComplete = TRUE], "ParsingComplete", nq, nf, reason)
      yield(q, nq, nf) ==
        LET r == consume(q, e)
        IN [out(r, IF decodeOK THEN "ok" ELSE "decodeErr", nq, nf,
                IF limitReached(r, e) THEN "limit" ELSE "")
              EXCEPT !.item = thisItem(q)]
  IN IF parsingIsComplete(p) THEN out(p, "ParsingComplete", 0, 0, "")
     ELSE IF ~bufferIsEmpty(p) THEN yield(p, 0, 0)
     ELSE IF p.allPagesParsed THEN done("allPages", 0, 0)
     ELSE IF maxPaginationReached(p, e) THEN done("maxPagination", 0, 0)
     ELSE IF resp.err THEN out(queryFailed(p), "fetchErr", 1, 0, "")
     ELSE IF resp.n = 0
     THEN out(noItemsReturned(p), "ParsingComplete", 1, 1, "noItems")
     ELSE yield(refill(p, resp), 1, 1)

\* One call of Next by the caller, the backend answering with one of
\* `responses`; the caller makes at most maxCalls calls.
NextCall(responses, maxCalls) ==
  /\ queryRet.kind = "parser"
  /\ calls < maxCalls
  /\ \E resp \in responses, decodeOK \in BOOLEAN :
       LET o == NextOutcome(parser, expr, resp, decodeOK)
       IN /\ parser' = o.parser
          /\ lastResult' = o.result
          /\ lastQueried' = o.queried
          /\ queries' = queries + o.queried
          /\ fetched' = fetched + o.fetched
          /\ okCount' = okCount + (IF o.result = "ok" THEN 1 ELSE 0)
          /\ doneReason' = IF o.reason # "" THEN o.reason ELSE doneReason
          /\ lastPage' = IF o.fetched = 1
                         THEN [n |-> resp.n, more |-> resp.more, fetched |-> TRUE]
                         ELSE lastPage
          /\ lastItem' = o.item
          /\ queryInput' =
               IF o.queried = 1
               THEN [queryInput EXCEPT !.ExclusiveStartKey = parser.lastEvaluatedKey]
               ELSE queryInput
  /\ calls' = calls + 1
  /\ lastOp' = <<"Next", "">>
  /\ UNCHANGED <<expr, table, pc, queryRet, builderCalls, describes, conflicts>>

Next == NextCall(QueryResponses, MaxCalls)

\* ---------------------------------------------------------- specifications
InitWith(e, tbl) ==
  /\ expr = e
  /\ table = tbl
  /\ pc = "build"
  /\ queryRet = NoRet
  /\ queryInput = NoQueryInput
  /\ parser = newQueryParser
  /\ builderCalls = 0
  /\ lastOp = <<"NewQuery", "">>
  /\ describes = 0
  /\ calls = 0
  /\ queries = 0
  /\ fetched = 0
  /\ okCount = 0
  /\ lastResult = "none"
  /\ lastQueried = 0
  /\ doneReason = "none"
  /\ lastPage = NoPage
  /\ lastItem = 0
  /\ conflicts = {}

NewTable == [Name |-> TableName, allIndexes |-> NilIndexes]

\* A new expression and a new table handle.
Init == InitWith(NewQuery, NewTable)

\* Building any expression and handing it to Table.Query (repeatedly).
SpecNext ==
  \/ Compare
  \/ DoLimit
  \/ DoSelect
  \/ DoOrderAscending
  \/ DoOrderDescending
  \/ DoMaxPagination
  \/ DoConsistentRead
  \/ DoWithFilter
  \/ Query

Spec == Init /\ [][SpecNext]_vars

\* The expression after NewQuery("p").Equals(v): the partition key of the
\* tables' indexes carries its Equals filter, and building goes on from there.
PartitionedInit == InitWith(addFilter(NewQuery, "p", "equals"), NewTable)

IndexSpec == PartitionedInit /\ [][SpecNext]_vars

\* One parser: the expression NewQuery("p").Equals(v) with the setters Next
\* reads (Limit, MaxPagination, ConsistentRead), on a table handle whose
\* metadata an earlier Query has loaded, then Query once and Next repeatedly.
LoadedTable ==
  [Name |-> TableName,
   allIndexes |->
     fetchIndexMetadata(
       [err |-> FALSE,
        desc |-> [KeySchema |-> <<Hash("p")>>,
                  GlobalSecondaryIndexes |-> <<>>,
                  LocalSecondaryIndexes |-> <<>>]])]

ParserInit == InitWith(addFilter(NewQuery, "p", "equals"), LoadedTable)

FirstQuery == pc = "build" /\ Query

ParserNext ==
  \/ DoLimit
  \/ DoMaxPagination
  \/ DoConsistentRead
  \/ FirstQuery
  \/ Next

ParserSpec == ParserInit /\ [][ParserNext]_vars

\* A caller that keeps calling Next, against a backend that holds at most
\* MaxPages pages (the last one it serves reports no LastEvaluatedKey) and
\* whose queries succeed after at most MaxFailures failures.
CallBudget == MaxPages * MaxPageLen + MaxFailures + 2

ServedResponses ==
  {resp \in QueryResponses :
     ~resp.err /\ (resp.more => fetched + 1 < MaxPages)}

FailedResponses == {resp \in QueryResponses : resp.err}

NextServed == NextCall(ServedResponses, CallBudget)

NextFailed ==
  /\ queries - fetched < MaxFailures
  /\ NextCall(FailedResponses, CallBudget)
  /\ lastResult' = "fetchErr"

TerminationNext ==
  \/ DoLimit
  \/ DoMaxPagination
  \/ FirstQuery
  \/ NextServed
  \/ NextFailed

TerminationSpec ==
  ParserInit /\ [][TerminationNext]_vars /\ WF_vars(NextServed)

\* ------------------------------------------------------------------ claims
\* A step that is one call of QueryParser.Next.
NextCalled == calls' = calls + 1

Consumed == {"ok", "decodeErr"}

\* C1: every terminal branch of Next (all pages parsed, max pagination
\* reached, empty page, limit reached) leaves the parser Exhausted; from then
\* on the parser stays Exhausted, and every later Next returns ParsingComplete,
\* makes no backend query and changes no field of the parser.
C1_ExhaustedIsPermanent ==
  /\ [](doneReason # "none" => parser.parsingComplete)
  /\ [](lastResult = "ParsingComplete" => parser.parsingComplete)
  /\ [][parser.parsingComplete => parser'.parsingComplete]_vars
  /\ [][parser.parsingComplete /\ NextCalled =>
          /\ lastResult' = "ParsingComplete"
          /\ queries' = queries
          /\ lastQueried' = 0
          /\ parser' = parser]_vars

\* Exhausted by the limit with a record still buffered, and Next called again.
C1_Witness ==
  /\ parser.parsingComplete
  /\ doneReason = "limit"
  /\ parser.bufferedItemsRemaining > 0
  /\ lastResult = "ParsingComplete"

LimitN ==
  queryRet.kind = "parser" /\ expr.limitSpecified /\ expr.limit >= 1

\* No Next call has failed to decode its record.
NoDecodeFailure == okCount = parser.totalItemsParsed

\* C2: with Limit(N), N >= 1, and no decode failure: at most N calls of Next
\* return a record; the parser is exhausted by the limit exactly when the Nth
\* record has been taken; the call that takes the Nth record returns it; every
\* call after it returns ParsingComplete and no record.
C2_LimitSemantics ==
  /\ [](LimitN /\ NoDecodeFailure =>
          /\ okCount <= expr.limit
          /\ (doneReason = "limit") <=> (parser.totalItemsParsed = expr.limit)
          /\ (doneReason = "limit" => parser.parsingComplete))
  /\ [][LimitN /\ NoDecodeFailure /\ NoDecodeFailure' /\ NextCalled =>
          /\ (parser.totalItemsParsed = expr.limit - 1
                /\ parser'.totalItemsParsed = expr.limit
              => lastResult' = "ok" /\ okCount' = expr.limit)
          /\ (parser.totalItemsParsed = expr.limit
              => lastResult' = "ParsingComplete" /\ okCount' = okCount)]_vars

\* Limit(2): two records returned, and the third call has failed.
C2_Witness ==
  /\ LimitN
  /\ expr.limit = 2
  /\ okCount = 2
  /\ doneReason = "limit"
  /\ lastResult = "ParsingComplete"

\* C3: after ConsistentRead(true) followed by MaxPagination(k), k > 1, the
\* consistency requirement is still true and the pagination cap is still 1.
C3_ConsistentReadKeepsCap ==
  (/\ lastOp[1] = "MaxPagination"
   /\ lastOp[2] > 1
   /\ expr.consistentRead)
  => expr.maxPaginationSpecified /\ expr.maxPagination = 1

\* C4: right after ConsistentRead(true) the cap is configured and equals 1,
\* whatever it was before; ConsistentRead(false) changes neither cap field.
C4_ConsistentReadForcesCap ==
  /\ [](lastOp[1] = "ConsistentRead" /\ lastOp[2] = TRUE =>
          /\ expr.consistentRead
          /\ expr.maxPaginationSpecified
          /\ expr.maxPagination = 1)
  /\ [][lastOp'[1] = "ConsistentRead" /\ lastOp'[2] = FALSE
          /\ builderCalls' = builderCalls + 1 =>
          /\ ~expr'.consistentRead
          /\ expr'.maxPaginationSpecified = expr.maxPaginationSpecified
          /\ expr'.maxPagination = expr.maxPagination]_vars

\* ConsistentRead(true) as the second setter call, the cap now 1.
C4_Witness ==
  /\ lastOp[1] = "ConsistentRead"
  /\ lastOp[2] = TRUE
  /\ builderCalls = 2
  /\ expr.maxPaginationSpecified
  /\ expr.maxPagination = 1

\* C5: when a comparator was applied to a key that already had a filter,
\* Query returns the recorded build error, which names a key in conflict (the
\* key in conflict when there is one), and returns it before any metadata
\* fetch, index selection or request compilation: no parser exists.
C5_BuildConflict ==
  (lastOp[1] = "Query" /\ conflicts # {}) =>
    /\ queryRet.kind = "buildErr"
    /\ queryRet.err = expr.buildErr
    /\ queryRet.err.key \in conflicts
    /\ \E t \in FilterTypes : queryRet.err.cond = conditionName(t)
    /\ queryRet.index = ""
    /\ describes = 0
    /\ table.allIndexes = NilIndexes
    /\ queryInput = NoQueryInput

C5_Witness ==
  /\ lastOp[1] = "Query"
  /\ conflicts # {}
  /\ queryRet.kind = "buildErr"
  /\ queryRet.err.key \in conflicts
  /\ expr.filters[queryRet.err.key] # NoFilter

\* No index of the loaded table has its partition key among the keys of the
\* expression's Equals filters.
NoPartitionKeyMatch ==
  /\ table.allIndexes # NilIndexes
  /\ \A n \in DOMAIN table.allIndexes :
       expr.filters[table.allIndexes[n].PartitionKey] # "equals"

\* C6: when Query reaches index selection (no build error, metadata loaded)
\* and no index has its partition key among the Equals filter keys, Query
\* returns ErrNoViableIndexes naming the table, and no parser.
C6_NoViableIndex ==
  (lastOp[1] = "Query" /\ expr.buildErr = NoBuildErr /\ NoPartitionKeyMatch) =>
    /\ queryRet.kind = "ErrNoViableIndexes"
    /\ queryRet.tableName = table.Name
    /\ queryRet.index = ""
    /\ queryInput = NoQueryInput

C6_Witness ==
  /\ lastOp[1] = "Query"
  /\ expr.buildErr = NoBuildErr
  /\ NoPartitionKeyMatch
  /\ Cardinality(DOMAIN table.allIndexes) = 2
  /\ queryRet.kind = "ErrNoViableIndexes"

\* The index named n has a filter of type t on its SortKey field (the empty
\* name for an index without a sort key).
SortKeyCarries(n, t) == expr.filters[table.allIndexes[n].SortKey] = t

ChooseIndexReturned == lastOp[1] = "Query" /\ queryRet.index # ""

FinalPage == lastPage.fetched /\ lastPage.n >= 1 /\ ~lastPage.more

\* C8: the call that fetches a page of k >= 1 records without continuation
\* token takes its first record; while the parser is not exhausted by the limit,
\* each later call takes one more record until k are taken (each returned
\* unless it fails to decode), the call after that returns ParsingComplete
\* ("all pages parsed"), and no call after that page makes a backend query.
C8_AllItemsParsed ==
  /\ [][FinalPage /\ NextCalled => queries' = queries /\ lastQueried' = 0]_vars
  /\ [][~FinalPage /\ FinalPage' =>
          /\ lastResult' \in Consumed
          /\ parser'.bufferedItemsRemaining = lastPage'.n - 1]_vars
  /\ [][FinalPage /\ ~parser.parsingComplete /\ NextCalled =>
          IF parser.bufferedItemsRemaining > 0
          THEN /\ lastResult' \in Consumed
               /\ parser'.bufferedItemsRemaining = parser.bufferedItemsRemaining - 1
          ELSE /\ lastResult' = "ParsingComplete"
               /\ doneReason' = "allPages"]_vars
  /\ [](doneReason = "allPages" =>
          /\ FinalPage
          /\ parser.bufferedItemsRemaining = 0
          /\ Len(parser.bufferedItems) = lastPage.n
          /\ parser.totalItemsParsed = parser.bufferedItems[lastPage.n]
          /\ (NoDecodeFailure => okCount = parser.bufferedItems[lastPage.n]))

\* One page of two records and no token: two records returned, the third call
\* fails, one backend query in all.
C8_Witness ==
  /\ doneReason = "allPages"
  /\ lastPage.n = 2
  /\ okCount = 2
  /\ queries = 1
  /\ lastResult = "ParsingComplete"

\* C9: a call of Next makes at most one backend query, and makes it only when
\* the buffer holds no unconsumed record; while the parser is Active and the
\* buffer holds an unconsumed record, Next takes the first unconsumed record
\* (returning it unless it fails to decode) without a backend query.
C9_LazyRefill ==
  [][NextCalled =>
       /\ lastQueried' \in {0, 1}
       /\ queries' = queries + lastQueried'
       /\ (lastQueried' = 1 => parser.bufferedItemsRemaining = 0)
       /\ (parser.bufferedItemsRemaining > 0 /\ ~parser.parsingComplete =>
             /\ lastQueried' = 0
             /\ lastResult' \in Consumed
             /\ lastItem' =
                  parser.bufferedItems[Len(parser.bufferedItems)
                                         - parser.bufferedItemsRemaining + 1]
             /\ parser'.bufferedItems = parser.bufferedItems
             /\ parser'.bufferedItemsRemaining =
                  parser.bufferedItemsRemaining - 1)]_vars

\* The second record of a page returned from the buffer.
C9_Witness ==
  /\ calls = 2
  /\ queries = 1
  /\ lastQueried = 0
  /\ lastResult = "ok"
  /\ lastItem = 2

CapC ==
  /\ queryRet.kind = "parser"
  /\ expr.maxPaginationSpecified
  /\ expr.maxPagination >= 0

\* C10: with a cap C >= 0, the parser never obtains more than C pages from the
\* backend; a Next call on an Active parser with a drained buffer and C pages
\* fetched returns ParsingComplete without a backend query and leaves the
\* parser Exhausted (with C = 0 this is the first call).
C10_PaginationCap ==
  /\ [](CapC => fetched <= expr.maxPagination
                /\ parser.totalPagesParsed <= expr.maxPagination)
  /\ [][CapC /\ NextCalled /\ ~parser.parsingComplete
          /\ parser.bufferedItemsRemaining = 0
          /\ fetched = expr.maxPagination =>
          /\ lastResult' = "ParsingComplete"
          /\ queries' = queries
          /\ parser'.parsingComplete]_vars

\* Cap 2: two pages fetched and drained, then the cap ends the parsing.
C10_Witness ==
  /\ CapC
  /\ expr.maxPagination = 2
  /\ fetched = 2
  /\ doneReason = "maxPagination"
  /\ lastResult = "ParsingComplete"

\* The keys of the specification's filters.
FilteredKeys == {k \in Keys : expr.filters[k] # NoFilter}

\* The keys whose filters are in the key condition of the compiled request.
KeyConditionKeys ==
  {queryInput.KeyPartition}
    \cup (IF queryInput.KeySort # NoSortCondition
          THEN {queryInput.KeySort.key} ELSE {})

\* C11: in the request Query compiled for the chosen index, the key condition
\* holds the partition key's Equals filter and, exactly when the index is
\* composite and its sort key has a filter, that filter; every other filter is
\* one filter-condition term, no filter is in both places, every raw condition
\* is a term, and the filter condition is absent exactly when there is no term.
C11_FilterPlacement ==
  queryRet.kind = "parser" =>
    LET index == table.allIndexes[queryRet.index]
    IN /\ queryInput.KeyPartition = index.PartitionKey
       /\ expr.filters[index.PartitionKey] = "equals"
       /\ IF index.IsComposite /\ expr.filters[index.SortKey] # NoFilter
          THEN queryInput.KeySort =
                 [key |-> index.SortKey, type |-> expr.filters[index.SortKey]]
          ELSE queryInput.KeySort = NoSortCondition
       /\ KeyConditionKeys \cap queryInput.FilterKeys = {}
       /\ KeyConditionKeys \cup queryInput.FilterKeys = FilteredKeys
       /\ queryInput.RawConditions = expr.additionalConditions
       /\ queryInput.HasFilter <=>
            (Cardinality(queryInput.FilterKeys) + queryInput.RawConditions > 0)

\* Partition Equals and sort-key Between in the key condition, one other
\* Equals filter as the only filter-condition term.
C11_Witness ==
  /\ queryRet.kind = "parser"
  /\ queryInput.KeySort.type = "between"
  /\ Cardinality(queryInput.FilterKeys) = 1
  /\ \A k \in queryInput.FilterKeys : expr.filters[k] = "equals"
  /\ queryInput.RawConditions = 0
  /\ queryInput.HasFilter

\* C12: every call of Table.Query ends by returning a parser or an error
\* value; it never panics.
C12_NoPanic ==
  lastOp[1] = "Query" =>
    queryRet.kind \in
      {"parser", "buildErr", "fetchErr", "ErrNoViableIndexes", "error"}

\* C13: when the backend query of a Next call returns an error, Next returns
\* that error, the parser is still Active and every field of it (continuation
\* token, buffer, cursor, items-yielded and pages-fetched counts) is as before
\* the call; the Next call that follows queries the backend again, with the
\* same continuation token in the request.
C13_FetchFailureLeavesParser ==
  /\ [][NextCalled /\ lastResult' = "fetchErr" =>
          /\ lastQueried' = 1
          /\ fetched' = fetched
          /\ parser' = parser
          /\ ~parser'.parsingComplete
          /\ queryInput'.ExclusiveStartKey = parser'.lastEvaluatedKey]_vars
  /\ [][NextCalled /\ lastResult = "fetchErr" =>
          /\ lastQueried' = 1
          /\ queryInput'.ExclusiveStartKey = queryInput.ExclusiveStartKey]_vars

\* A failed fetch of the second page, retried with success: the record after
\* the first page's last one is returned.
C13_Witness ==
  /\ calls = 4
  /\ queries = 3
  /\ fetched = 2
  /\ lastResult = "ok"
  /\ lastQueried = 1
  /\ queryInput.ExclusiveStartKey = 2
  /\ lastItem = 3

\* C14: a Next call that fails to decode its record leaves the items-yielded
\* count and the terminal flag as they were before the call, and, when the
\* record was already buffered, the buffer cursor too (so that the next call
\* takes the same record).
C14_DecodeFailureKeepsState ==
  [][NextCalled /\ lastResult' = "decodeErr" =>
       /\ parser'.totalItemsParsed = parser.totalItemsParsed
       /\ parser'.parsingComplete = parser.parsingComplete
       /\ (parser.bufferedItemsRemaining > 0 =>
             parser'.bufferedItemsRemaining = parser.bufferedItemsRemaining)]_vars

\* The latest page the backend returned held no record.
EmptyPage == lastPage.fetched /\ lastPage.n = 0

C16_BuildErrorSetOnce ==
  /\ [][expr.buildErr # NoBuildErr => expr'.buildErr = expr.buildErr]_vars
  /\ [][\A k \in Keys :
          expr.filters[k] # NoFilter => expr'.filters[k] = expr.filters[k]]_vars

\* A step that is one call of Table.Query.
QueryCalled == lastOp' = <<"Query", "">>

CacheEmpty == table.allIndexes = NilIndexes

\* C17: a Query call fetches the metadata (one DescribeTable call) only when
\* the cache is empty; once the cache is loaded no Query fetches again and the
\* cache keeps its contents; a failed fetch makes Query return that error and
\* leaves the cache empty, and the Query that follows fetches again.
C17_MetadataLoadOnce ==
  /\ [][QueryCalled => describes' \in {0, 1}]_vars
  /\ [][QueryCalled /\ describes' = 1 => CacheEmpty]_vars
  /\ [][QueryCalled /\ ~CacheEmpty =>
          describes' = 0 /\ table' = table /\ queryRet'.kind # "fetchErr"]_vars
  /\ [][QueryCalled /\ CacheEmpty /\ expr.buildErr = NoBuildErr =>
          describes' = 1]_vars
  /\ [](queryRet.kind = "fetchErr" => CacheEmpty /\ describes = 1)
  /\ [][QueryCalled /\ queryRet.kind = "fetchErr" =>
          describes' = 1]_vars

\* A Query on a handle whose cache an earlier Query loaded: no fetch, and a
\* parser returned.
C17_Witness ==
  /\ lastOp[1] = "Query"
  /\ ~CacheEmpty
  /\ describes = 0
  /\ queryRet.kind = "parser"

\* The index chooseIndex returned to Query.
ChosenIndex == table.allIndexes[queryRet.index]

\* C18: the partition key of every index chooseIndex returns is among the
\* keys of the expression's Equals filters, so the type assertion on the
\* partition key's filter in constructQueryInputGivenIndex never fails (the
\* only panic left is the one of an empty attribute selection).
C18_PartitionKeyEquality ==
  ChooseIndexReturned =>
    /\ ChosenIndex.PartitionKey \in getKeysOfFilterType(expr, "equals")
    /\ expr.filters[ChosenIndex.PartitionKey] = "equals"
    /\ (queryRet.kind = "panic" =>
          expr.attributesSpecified /\ Len(expr.attributes) = 0)

\* A secondary index chosen on its partition key's Equals filter, while the
\* primary index's partition key has a filter of another type.
C18_Witness ==
  /\ ChooseIndexReturned
  /\ queryRet.kind = "parser"
  /\ queryRet.index # tablePrimaryIndexName
  /\ expr.filters[table.allIndexes[tablePrimaryIndexName].PartitionKey]
       \notin {NoFilter, "equals"}

\* C19: with an attribute selection, the index chooseIndex returns projects
\* all attributes or has every selected attribute in its attribute set;
\* without one, it projects all attributes.
C19_ProjectionViability ==
  ChooseIndexReturned =>
    IF expr.attributesSpecified
    THEN \/ ChosenIndex.IncludesAllAttributes
         \/ SeqToSet(expr.attributes) \subseteq ChosenIndex.AttributeSet
    ELSE ChosenIndex.IncludesAllAttributes

\* An index with an explicit attribute list chosen for a selection of one of
\* its non-key attributes.
C19_Witness ==
  /\ ChooseIndexReturned
  /\ queryRet.kind = "parser"
  /\ ~ChosenIndex.IncludesAllAttributes
  /\ expr.attributes = <<"a">>
  /\ "a" \in ChosenIndex.AttributeSet

\* The names of the global secondary indexes of the tables.
GlobalIndexNames ==
  UNION {{d.GlobalSecondaryIndexes[i].IndexName :
            i \in DOMAIN d.GlobalSecondaryIndexes} : d \in TableDescriptions}

\* The indexes of the loaded table whose partition key has an Equals filter.
PartitionKeyMatches ==
  {n \in DOMAIN table.allIndexes :
     expr.filters[table.allIndexes[n].PartitionKey] = "equals"}

\* C20: when the expression requests consistent read, the index chooseIndex
\* returns supports consistent reads and is not a global secondary index; and
\* when Query reaches index selection and no index with a matching partition
\* key supports consistent reads, Query returns ErrNoViableIndexes.
C20_ConsistentReadViability ==
  /\ (ChooseIndexReturned /\ expr.consistentRead) =>
       /\ ChosenIndex.ConsistentReadable
       /\ queryRet.index \notin GlobalIndexNames
  /\ (/\ lastOp[1] = "Query"
      /\ expr.buildErr = NoBuildErr
      /\ ~CacheEmpty
      /\ expr.consistentRead
      /\ \A n \in PartitionKeyMatches : ~table.allIndexes[n].ConsistentReadable)
     => queryRet.kind = "ErrNoViableIndexes"

\* Consistent read: the primary index is chosen although a global secondary
\* index has an Equals filter on its sort key, which would give it priority.
C20_Witness ==
  /\ ChooseIndexReturned
  /\ queryRet.kind = "parser"
  /\ expr.consistentRead
  /\ queryRet.index = tablePrimaryIndexName
  /\ \E n \in PartitionKeyMatches \cap GlobalIndexNames :
       /\ table.allIndexes[n].IncludesAllAttributes
       /\ SortKeyCarries(n, "equals")
       /\ ~SortKeyCarries(tablePrimaryIndexName, "equals")

\* C21: when the expression has a sort directive on attribute k, the index
\* chooseIndex returns is composite and has k as its sort key.
C21_SortDirectiveViability ==
  (ChooseIndexReturned /\ expr.orderMatters) =>
    /\ ChosenIndex.IsComposite
    /\ ChosenIndex.SortKey = expr.orderKey

\* A descending query on the sort key of a secondary index: that index is
\* chosen, not the composite primary index.
C21_Witness ==
  /\ ChooseIndexReturned
  /\ queryRet.kind = "parser"
  /\ expr.orderMatters
  /\ expr.orderDescending
  /\ queryRet.index # tablePrimaryIndexName
  /\ table.allIndexes[tablePrimaryIndexName].IsComposite
  /\ queryInput.ScanIndexForward = "false"

\* The LastEvaluatedKey the most recently fetched page returned: the number of
\* its last record (the buffer holds that page).
LatestToken == parser.bufferedItems[Len(parser.bufferedItems)]

\* C22: the first backend query of a parser carries no ExclusiveStartKey; every
\* later one is made only after a page that returned a LastEvaluatedKey, and
\* carries the key of the most recently fetched page.
C22_TokenChaining ==
  [][NextCalled /\ lastQueried' = 1 =>
       IF ~lastPage.fetched
       THEN queryInput'.ExclusiveStartKey = 0
       ELSE /\ lastPage.more
            /\ lastPage.n >= 1
            /\ queryInput'.ExclusiveStartKey = LatestToken]_vars

\* The second page was asked for with the key of the first, one-record page.
C22_Witness ==
  /\ queries = 2
  /\ fetched = 2
  /\ queryInput.ExclusiveStartKey = 1
  /\ Len(parser.bufferedItems) = 2
  /\ parser.bufferedItems[1] = 2

\* C23: no call of Next on a parser of an expression built with Limit(0)
\* returns a record.
C23_LimitZero ==
  (queryRet.kind = "parser" /\ expr.limitSpecified /\ expr.limit = 0) =>
    okCount = 0

\* C24: the k-th record Next takes is the k-th record of the fetched pages
\* laid end to end (records are numbered in that order), whether or not fetch
\* failures come in between, and the number of unconsumed records is always
\* between 0 and the length of the buffered page; a call that takes no record
\* leaves the cursor and the count alone.
C24_RecordsInOrder ==
  [][NextCalled =>
       /\ parser'.bufferedItemsRemaining >= 0
       /\ parser'.bufferedItemsRemaining <= Len(parser'.bufferedItems)
       /\ IF lastResult' \in Consumed
          THEN /\ parser'.totalItemsParsed = parser.totalItemsParsed + 1
               /\ lastItem' = parser'.totalItemsParsed
               /\ lastItem' =
                    parser'.bufferedItems[Len(parser'.bufferedItems)
                                            - parser'.bufferedItemsRemaining]
          ELSE /\ parser'.totalItemsParsed = parser.totalItemsParsed
               /\ parser'.bufferedItemsRemaining = parser.bufferedItemsRemaining
               /\ lastItem' = 0]_vars

\* Two pages of two records with a failed fetch in between: the third record
\* taken is the first one of the second page.
C24_Witness ==
  /\ parser.totalItemsParsed = 3
  /\ lastItem = 3
  /\ queries = 3
  /\ fetched = 2
  /\ parser.bufferedItems = <<3, 4>>
  /\ parser.bufferedItemsRemaining = 1

PrimaryIndex == table.allIndexes[tablePrimaryIndexName]

\* Query reached index selection on a loaded table, with an Equals filter on
\* the primary partition key and no sort directive or one on the primary
\* index's sort key.
PrimaryIndexFits ==
  /\ lastOp[1] = "Query"
  /\ expr.buildErr = NoBuildErr
  /\ ~CacheEmpty
  /\ expr.filters[PrimaryIndex.PartitionKey] = "equals"
  /\ expr.orderMatters =>
       PrimaryIndex.IsComposite /\ PrimaryIndex.SortKey = expr.orderKey

\* C25: for such a Query the primary index is viable, whatever the consistency
\* and attribute-selection settings, and Query does not return
\* ErrNoViableIndexes.
C25_PrimaryIndexFallback ==
  PrimaryIndexFits =>
    /\ tablePrimaryIndexName \in getViableQueryIndexes(table, expr)
    /\ queryRet.kind # "ErrNoViableIndexes"
    /\ queryRet.index # ""

\* A consistent, ordered query for which the primary index is the only viable
\* index.
C25_Witness ==
  /\ PrimaryIndexFits
  /\ expr.consistentRead
  /\ expr.orderMatters
  /\ Cardinality(DOMAIN table.allIndexes) = 2
  /\ getViableQueryIndexes(table, expr) = {tablePrimaryIndexName}
  /\ queryRet.kind = "parser"

\* C26: against a backend with finitely many pages whose queries eventually
\* succeed, a caller that keeps calling Next on a parser eventually gets
\* ParsingComplete, and from then on the parser is Exhausted.
C26_EnumerationTerminates ==
  /\ (queryRet.kind = "parser") ~>
       (lastResult = "ParsingComplete" /\ parser.parsingComplete)
  /\ (queryRet.kind = "parser") ~> [](parser.parsingComplete)

\* Every page fetched and every record taken, a failed query on the way, and
\* ParsingComplete at the end.
C26_Witness ==
  /\ lastResult = "ParsingComplete"
  /\ doneReason = "allPages"
  /\ fetched = MaxPages
  /\ queries - fetched = MaxFailures
  /\ parser.totalItemsParsed = MaxPages * MaxPageLen

====
